---- MODULE Spec2Model ----
(***************************************************************************)
(* FaceFolio backend (src/FaceFolio/backend/main.py): the two HTTP         *)
(* handlers process_photo and finalize_and_sort, the pickle-backed store   *)
(* of known faces, the in-memory cache of temporary encodings, and the     *)
(* helpers cosine_distance, box_iou and find_best_match.                   *)
(*                                                                         *)
(* Numbers that the code computes in float64 (numpy dtype=float, Python    *)
(* float) are modelled as IEEE-754 binary64 values with round-to-nearest-  *)
(* even; the 53-bit significands are held in fixed-width limb vectors.     *)
(***************************************************************************)
EXTENDS Integers, Sequences, FiniteSets

(***************************************************************************)
(* Unsigned multi-limb integers: a vector of NL limbs in base B, least     *)
(* significant limb first.  120 bits hold every intermediate value of a    *)
(* binary64 square root, product and quotient of the model's inputs.       *)
(***************************************************************************)
B == 32 * 1024
NL == 4 + 4
Limbs == 1..NL

RECURSIVE BZeros(_)
BZeros(n) == IF n = 0 THEN << >> ELSE Append(BZeros(n - 1), 0)

BZero == BZeros(NL)

\* The limb vector of a small natural number n (n < 2^31).
BN(n) == <<n % B, (n \div B) % B, (n \div B) \div B>> \o BZeros(NL - 3)

RECURSIVE BAddFrom(_, _, _, _, _)
BAddFrom(x, y, i, c, acc) ==
    IF i > NL THEN acc
    ELSE LET t == x[i] + y[i] + c
         IN  IF t < B THEN BAddFrom(x, y, i + 1, 0, Append(acc, t))
             ELSE BAddFrom(x, y, i + 1, 1, Append(acc, t - B))

BAdd(x, y) == BAddFrom(x, y, 1, 0, << >>)

RECURSIVE BSubFrom(_, _, _, _, _)
BSubFrom(x, y, i, c, acc) ==
    IF i > NL THEN acc
    ELSE LET t == x[i] - y[i] - c
         IN  IF t < 0 THEN BSubFrom(x, y, i + 1, 1, Append(acc, t + B))
             ELSE BSubFrom(x, y, i + 1, 0, Append(acc, t))

\* x - y for x >= y.
BSub(x, y) == BSubFrom(x, y, 1, 0, << >>)

RECURSIVE BLeFrom(_, _, _)
BLeFrom(x, y, i) == IF i = 0 THEN TRUE
                    ELSE IF x[i] < y[i] THEN TRUE
                    ELSE IF x[i] > y[i] THEN FALSE
                    ELSE BLeFrom(x, y, i - 1)

BLe(x, y) == BLeFrom(x, y, NL)
BLt(x, y) == ~BLe(y, x)

\* floor(x / 2), limb by limb from the top one down; c is the bit carried
\* into the next lower limb.
RECURSIVE BHalfFrom(_, _, _, _)
BHalfFrom(x, i, c, acc) ==
    IF i = 0 THEN acc
    ELSE LET t == x[i] + c * B
         IN  IF t % 2 = 0 THEN BHalfFrom(x, i - 1, 0, <<t \div 2>> \o acc)
             ELSE BHalfFrom(x, i - 1, 1, <<t \div 2>> \o acc)

BHalf(x) == BHalfFrom(x, NL, 0, << >>)

BDouble(x) == BAdd(x, x)

RECURSIVE BMulLimbFrom(_, _, _, _, _)
BMulLimbFrom(x, d, i, c, acc) ==
    IF i > NL THEN acc
    ELSE LET t == x[i] * d + c
         IN  IF t < B THEN BMulLimbFrom(x, d, i + 1, 0, Append(acc, t))
             ELSE BMulLimbFrom(x, d, i + 1, t \div B, Append(acc, t % B))

\* x times one limb d.
BMulLimb(x, d) == BMulLimbFrom(x, d, 1, 0, << >>)

BShlLimb(x) == <<0>> \o SubSeq(x, 1, NL - 1)

\* x * 2^k: whole limbs are moved, the remaining bits are a one-limb product.
BShl(x, k) == BZeros(k \div 15) \o SubSeq(BMulLimb(x, 2 ^ (k % 15)), 1, NL - (k \div 15))

\* x * y, by Horner's rule over the limbs of y from the top one down; the
\* test on acc has it evaluated before the next limb is taken.
RECURSIVE BMulFrom(_, _, _, _)
BMulFrom(x, y, j, acc) ==
    IF j = 0 \/ Len(acc) # NL THEN acc
    ELSE BMulFrom(x, y, j - 1, BAdd(BMulLimb(x, y[j]), BShlLimb(acc)))

BMul(x, y) == BMulFrom(x, y, NL, BZero)

RECURSIVE IntBitLen(_)
IntBitLen(n) == IF n = 0 THEN 0 ELSE 1 + IntBitLen(n \div 2)

RECURSIVE BTopLimb(_, _)
BTopLimb(x, i) == IF i = 0 THEN 0 ELSE IF x[i] # 0 THEN i ELSE BTopLimb(x, i - 1)

\* Number of significant bits of x (0 for zero).
BBitLen(x) == LET t == BTopLimb(x, NL)
              IN  IF t = 0 THEN 0 ELSE 15 * (t - 1) + IntBitLen(x[t])

(***************************************************************************)
(* binary64: sign, 53-bit significand m (2^52 <= m < 2^53, or 0) and       *)
(* exponent e, value (-1)^neg * m * 2^e.  Inputs of the model stay far     *)
(* from the subnormal and overflow ranges.                                 *)
(***************************************************************************)
Precision == 53

FZero == [neg |-> FALSE, m |-> BZero, e |-> 0]

BPow2(k) == BShl(BN(1), k)

RECURSIVE BShrFrom(_, _, _, _, _)
BShrFrom(y, r, i, c, acc) ==
    IF i = 0 THEN acc
    ELSE LET t == y[i] + c * B
         IN  IF t % (2 ^ r) = 0 THEN BShrFrom(y, r, i - 1, 0, <<t \div (2 ^ r)>> \o acc)
             ELSE BShrFrom(y, r, i - 1, t % (2 ^ r), <<t \div (2 ^ r)>> \o acc)

\* floor(x / 2^k): whole limbs are dropped, the remaining bits shifted limb
\* by limb from the top one down, c being the bits carried downwards.
BShr(x, k) == BShrFrom(SubSeq(x, (k \div 15) + 1, NL) \o BZeros(k \div 15), k % 15, NL, 0, << >>)

\* x shifted right by k >= 1 bits, with the last bit shifted out (guard) and
\* whether any bit below it was set or the value had a fraction (sticky).
RShift(x, k, sticky) ==
    LET y == BShr(x, k - 1)
    IN  [x |-> BHalf(y), g |-> y[1] % 2 = 1, st |-> sticky \/ BShl(y, k - 1) # x]

\* Round the exact value (-1)^neg * (M + sticky-fraction) * 2^E to binary64,
\* ties to even.
FRound(neg, M, sticky, E) ==
    LET L == BBitLen(M) IN
    IF M = BZero THEN FZero
    ELSE IF L <= Precision
         THEN [neg |-> neg, m |-> BShl(M, Precision - L), e |-> E - (Precision - L)]
         ELSE LET r   == RShift(M, L - Precision, sticky)
                  up  == r.g /\ (r.st \/ r.x[1] % 2 = 1)
                  m1  == IF up THEN BAdd(r.x, BN(1)) ELSE r.x
                  ovf == BBitLen(m1) > Precision
              IN  [neg |-> neg,
                   m   |-> IF ovf THEN BHalf(m1) ELSE m1,
                   e   |-> E + (L - Precision) + (IF ovf THEN 1 ELSE 0)]

\* float(n) for a small integer n.
FInt(n) == FRound(n < 0, BN(IF n < 0 THEN -n ELSE n), FALSE, 0)

FOne == FInt(1)

\* x < y and x <= y on binary64 values.
FMagLt(x, y) == IF x.m = BZero THEN y.m # BZero
                ELSE IF y.m = BZero THEN FALSE
                ELSE x.e < y.e \/ (x.e = y.e /\ BLt(x.m, y.m))

FLt(x, y) == IF x.m = BZero /\ y.m = BZero THEN FALSE
             ELSE IF x.neg /\ ~y.neg THEN TRUE
             ELSE IF ~x.neg /\ y.neg THEN FALSE
             ELSE IF x.neg THEN FMagLt(y, x) ELSE FMagLt(x, y)

FLe(x, y) == ~FLt(y, x)

\* One step of the digit-by-digit integer square root: s.x is the remainder,
\* s.res the root so far, s.bit the current power of four.
ISqrtStep(s) ==
    LET t == BAdd(s.res, s.bit) IN
    IF BLe(t, s.x)
    THEN [x |-> BSub(s.x, t), res |-> BAdd(BHalf(s.res), s.bit), bit |-> BHalf(BHalf(s.bit))]
    ELSE [x |-> s.x, res |-> BHalf(s.res), bit |-> BHalf(BHalf(s.bit))]

\* n steps, split in halves; the first half is evaluated (the test on its
\* result) before the second half starts, which keeps the evaluation shallow.
RECURSIVE ISqrt(_, _)
ISqrt(s, n) == IF n = 1 THEN ISqrtStep(s)
               ELSE LET h == ISqrt(s, n \div 2)
                    IN  IF Len(h.res) = NL THEN ISqrt(h, n - (n \div 2)) ELSE h

\* sqrt of the small natural number s, correctly rounded: the root of
\* s * 4^k is taken to 54 bits and rounded with the remainder as sticky.
FSqrt(s) ==
    IF s = 0 THEN FZero
    ELSE LET k == 53 - ((IntBitLen(s) - 1) \div 2)
             r == ISqrt([x |-> BShl(BN(s), 2 * k), res |-> BZero, bit |-> BPow2(108)], 55)
         IN  IF r.res = BZero THEN FZero ELSE FRound(FALSE, r.res, r.x # BZero, -k)

\* x * y, correctly rounded.
FMul(x, y) ==
    IF x.m = BZero \/ y.m = BZero THEN FZero
    ELSE LET M == BMul(x.m, y.m)
         IN  IF M = BZero THEN FZero ELSE FRound(x.neg # y.neg, M, FALSE, x.e + y.e)

\* One step of restoring long division: s.num is the running remainder,
\* s.quot the quotient so far, s.d the divisor times a power of two.
LongDivStep(s) ==
    LET dd == BHalf(s.d) IN
    IF BLe(dd, s.num)
    THEN [num |-> BSub(s.num, dd), quot |-> BAdd(BDouble(s.quot), BN(1)), d |-> dd]
    ELSE [num |-> s.num, quot |-> BDouble(s.quot), d |-> dd]

RECURSIVE LongDiv(_, _)
LongDiv(s, n) == IF n = 1 THEN LongDivStep(s)
                 ELSE LET h == LongDiv(s, n \div 2)
                      IN  IF Len(h.quot) = NL THEN LongDiv(h, n - (n \div 2)) ELSE h

\* x / y for y # 0, correctly rounded: the quotient of x.m * 2^56 by y.m has
\* 56 or 57 bits.
FDiv(x, y) ==
    IF x.m = BZero \/ y.m = BZero THEN FZero
    ELSE LET r == LongDiv([num |-> BShl(x.m, 56), quot |-> BZero, d |-> BShl(y.m, 57)], 57)
         IN  IF r.quot = BZero THEN FZero
             ELSE FRound(x.neg # y.neg, r.quot, r.num # BZero, x.e - y.e - 56)

\* x - y, correctly rounded (both operands aligned to the smaller exponent).
FSub(x, y) ==
    IF y.m = BZero THEN x
    ELSE IF x.m = BZero THEN [y EXCEPT !.neg = ~y.neg]
    ELSE LET E  == IF x.e < y.e THEN x.e ELSE y.e
             X  == BShl(x.m, x.e - E)
             Y  == BShl(y.m, y.e - E)
         IN  IF x.neg # y.neg THEN FRound(x.neg, BAdd(X, Y), FALSE, E)
             ELSE IF BLe(Y, X) THEN FRound(x.neg, BSub(X, Y), FALSE, E)
             ELSE FRound(~x.neg, BSub(Y, X), FALSE, E)

(***************************************************************************)
(* The state: the files and directories of lines 17-25, the cache of line  *)
(* 29 (one per server process), the requests being handled, and history    *)
(* variables that record what the claims speak of.                         *)
(***************************************************************************)
VARIABLES
    known_faces,               \* face_encodings.pickle: saved, encodings, names
    temp_face_encoding_cache,  \* per process: temp_id -> encoding or None
    temp_uploads,              \* temp_uploads/: the names of the files in it
    temp_crops,                \* temp_crops/: the temp_ids that have a crop file
    sorted_photos,             \* sorted_photos/: <<name, file name>> of every copy
    person_folders,            \* the names that have a folder in sorted_photos/
    uuid_next,                 \* uuid4(): the next identifier never returned yet
    inflight,                  \* per process: the finalize request being handled
    request,                   \* the request handled last
    response,                  \* and the response to it
    consumed,                  \* history: temp_id -> times its encoding was learned
    filed,                     \* history: paths filed and not uploaded since
    args,                      \* the arguments of a call of a helper function
    result,                    \* and what the call returned
    memo                       \* float results computed once, at the start

vars == <<known_faces, temp_face_encoding_cache, temp_uploads, temp_crops,
          sorted_photos, person_folders, uuid_next, inflight, request, response,
          consumed, filed, args, result, memo>>

(***************************************************************************)
(* Helper functions of main.py.  A face encoding is a vector of numbers (a *)
(* tuple of small integers here, all exactly representable as floats).     *)
(* Python's None is << >> where an encoding is expected, "None" where a    *)
(* name is expected and 0 where a list index is expected; list indices are *)
(* counted from 1, so index i here is Python's index i - 1.                *)
(***************************************************************************)
NoEncoding == << >>
NoName == "None"
NoIndex == 0

RECURSIVE Dot(_, _)
Dot(a, b) == IF a = << >> THEN 0 ELSE a[1] * b[1] + Dot(Tail(a), Tail(b))

\* np.linalg.norm of a vector: the square root of its dot product with itself.
Norm(a) == FSqrt(Dot(a, a))

\* cosine_distance(a, b), lines 66-72.
cosine_distance(a, b) ==
    LET denom == FMul(Norm(a), Norm(b)) IN
    IF denom.m = BZero THEN FOne
    ELSE FSub(FOne, FDiv(FInt(Dot(a, b)), denom))

\* The embeddings the requests of the model carry: <<3, 1>> is within 0.08
\* of <<1, 0>>, <<1, 1>> is within 0.6 of every other non-zero one, <<0, 1>>
\* is farther than 0.6 from <<1, 0>> and <<3, 1>>.
Encodings == {<<1, 0>>, <<3, 1>>, <<1, 1>>, <<0, 1>>, <<0, 0>>}

\* The distances between these embeddings.
CosineTable == [pr \in Encodings \X Encodings |-> cosine_distance(pr[1], pr[2])]

\* distance(a, b) for two of these embeddings, as read from the table
\* computed at the start.
distance(a, b) == memo.cosine[<<a, b>>]

Max(x, y) == IF x >= y THEN x ELSE y
Min(x, y) == IF x <= y THEN x ELSE y

\* Box coordinates of the model lie in 0..MaxCoord, so areas in 0..MaxArea.
MaxCoord == 2
MaxArea == MaxCoord * MaxCoord

\* interArea / denom for the areas of such boxes.
RatioTable == [pr \in (0..MaxArea) \X (1..(2 * MaxArea)) |-> FDiv(FInt(pr[1]), FInt(pr[2]))]

\* The quotient as read from the table computed at the start.
Ratio(i, d) == memo.ratio[<<i, d>>]

\* A faulty inter_area that takes the sides' absolute values instead of
\* clamping them at 0; C5 must fail with it.
inter_area_abs(boxA, boxB) ==
    LET xA == Max(boxA[1], boxB[1])
        yA == Max(boxA[2], boxB[2])
        xB == Min(boxA[3], boxB[3])
        yB == Min(boxA[4], boxB[4])
        interW == Max(xA - xB, xB - xA)
        interH == Max(yA - yB, yB - yA)
    IN  interW * interH

\* interArea of box_iou, lines 77-83, on boxes <<x1, y1, x2, y2>> of integers.
inter_area(boxA, boxB) ==
    LET xA == Max(boxA[1], boxB[1])
        yA == Max(boxA[2], boxB[2])
        xB == Min(boxA[3], boxB[3])
        yB == Min(boxA[4], boxB[4])
        interW == Max(0, xB - xA)
        interH == Max(0, yB - yA)
    IN  interW * interH

\* denom of box_iou, lines 84-86: the area of the union.
union_area(boxA, boxB) ==
    LET boxAArea == Max(0, boxA[3] - boxA[1]) * Max(0, boxA[4] - boxA[2])
        boxBArea == Max(0, boxB[3] - boxB[1]) * Max(0, boxB[4] - boxB[2])
    IN  boxAArea + boxBArea - inter_area(boxA, boxB)

\* box_iou(boxA, boxB), lines 75-89.
box_iou(boxA, boxB) ==
    IF union_area(boxA, boxB) <= 0 THEN FZero
    ELSE Ratio(inter_area(boxA, boxB), union_area(boxA, boxB))

\* The thresholds of lines 92, 226 and 235 as floats: 0.6 is the float
\* nearest to 6/10 and 0.08 the float nearest to 8/100.
Thresholds ==
    [match |-> FDiv(FInt(6), FInt(10)), distance |-> FDiv(FInt(8), FInt(100)),
     iou |-> FDiv(FInt(6), FInt(10))]

MatchThreshold == memo.thresholds.match
DuplicateDistance == memo.thresholds.distance
DuplicateIou == memo.thresholds.iou

\* What is computed once, when the model starts.
Memo == [cosine |-> CosineTable, ratio |-> RatioTable, thresholds |-> Thresholds]

\* distances = [cosine_distance(k, encoding) for k in known_encodings], line 99.
RECURSIVE Distances(_, _)
Distances(known_encodings, encoding) ==
    IF known_encodings = << >> THEN << >>
    ELSE Append(Distances(SubSeq(known_encodings, 1, Len(known_encodings) - 1), encoding),
                distance(known_encodings[Len(known_encodings)], encoding))

\* np.argmin(distances), line 100: the first index of the least element.
RECURSIVE ArgMinFrom(_, _, _)
ArgMinFrom(distances, i, best) ==
    IF i > Len(distances) THEN best
    ELSE IF FLt(distances[i], distances[best]) THEN ArgMinFrom(distances, i + 1, i)
    ELSE ArgMinFrom(distances, i + 1, best)

\* A faulty argmin that returns the last index of the minimum; C2 must fail
\* with it.
RECURSIVE ArgMinLastFrom(_, _, _)
ArgMinLastFrom(distances, i, best) ==
    IF i > Len(distances) THEN best
    ELSE IF FLe(distances[i], distances[best]) THEN ArgMinLastFrom(distances, i + 1, i)
    ELSE ArgMinLastFrom(distances, i + 1, best)

argmin_last(distances) == ArgMinLastFrom(distances, 2, 1)

argmin(distances) == ArgMinFrom(distances, 2, 1)

\* find_best_match(known_encodings, encoding), lines 92-103.
find_best_match(known_encodings, encoding) ==
    IF known_encodings = << >> THEN NoIndex
    ELSE LET distances == Distances(known_encodings, encoding)
             best_idx  == argmin(distances)
         IN  IF FLe(distances[best_idx], MatchThreshold) THEN best_idx ELSE NoIndex

\* The name process_photo gives a face that is no duplicate, lines 243-247.
match_name(known_encodings, known_names, encoding) ==
    IF encoding # NoEncoding /\ known_encodings # << >>
    THEN LET match_idx == find_best_match(known_encodings, encoding)
         IN  IF match_idx # NoIndex THEN known_names[match_idx] ELSE NoName
    ELSE NoName

(***************************************************************************)
(* process_photo, lines 146-287.  A photo is what the detector and the     *)
(* embedding network make of it: the detected boxes in order, the          *)
(* embeddings of the aligned faces, and the image size.                    *)
(***************************************************************************)

\* Lines 211-215: the box clamped to the image.
clamp_box(box, width, height) ==
    <<Max(0, Max(0, box[1])), Max(0, Max(0, box[2])),
      Min(width, Max(0, box[3])), Min(height, Max(0, box[4]))>>

\* Lines 223-230: some embedding seen before is at distance < 0.08.
duplicate_encoding(seen_encodings, encoding) ==
    /\ encoding # NoEncoding
    /\ \E k \in 1..Len(seen_encodings) :
          FLt(distance(seen_encodings[k], encoding), DuplicateDistance)

\* Lines 233-237: some box seen before overlaps with IoU > 0.6.
duplicate_box(seen_boxes, box) ==
    \E k \in 1..Len(seen_boxes) : FLt(DuplicateIou, box_iou(seen_boxes[k], box))

\* The state of the loop of line 209 before its first iteration, lines
\* 182-187; outcome records what became of each detection.
loop_start ==
    [identified_people |-> {}, unidentified_faces |-> << >>,
     seen_encodings |-> << >>, seen_boxes |-> << >>, outcome |-> << >>]

\* Lines 249-281: the face is new; its embedding and box are recorded for
\* the deduplication of the detections after it.
new_face(lp, encoding, box) ==
    [lp EXCEPT !.unidentified_faces = Append(@, [encoding |-> encoding, box |-> box]),
               !.seen_encodings = IF encoding # NoEncoding THEN Append(@, encoding) ELSE @,
               !.seen_boxes = Append(@, box),
               !.outcome = Append(@, "unidentified")]

\* Lines 243-247: the face is matched to a known person.
known_face(lp, name) ==
    [lp EXCEPT !.identified_people = @ \cup {name},
               !.outcome = Append(@, name)]

\* One iteration of the loop, lines 209-281, for the detection number idx.
face_iteration(known_encodings, known_names, photo, idx, lp) ==
    LET box      == clamp_box(photo.boxes[idx], photo.width, photo.height)
        encoding == IF Len(photo.embeddings) >= idx THEN photo.embeddings[idx]
                    ELSE NoEncoding
        is_duplicate == \/ duplicate_encoding(lp.seen_encodings, encoding)
                        \/ duplicate_box(lp.seen_boxes, box)
        name     == match_name(known_encodings, known_names, encoding)
    IN  IF is_duplicate THEN [lp EXCEPT !.outcome = Append(@, "skipped")]
        ELSE IF name # NoName THEN known_face(lp, name)
        ELSE new_face(lp, encoding, box)

RECURSIVE face_loop(_, _, _, _, _)
face_loop(known_encodings, known_names, photo, idx, lp) ==
    IF idx > Len(photo.boxes) THEN lp
    ELSE face_loop(known_encodings, known_names, photo, idx + 1,
                   face_iteration(known_encodings, known_names, photo, idx, lp))

\* Lines 182-287 for a photo the detector accepted: no box at all returns
\* at once (lines 191-197), else every detection is handled in order.
scan_faces(known_encodings, known_names, photo) ==
    IF Len(photo.boxes) = 0 THEN loop_start
    ELSE face_loop(known_encodings, known_names, photo, 1, loop_start)

(***************************************************************************)
(* The persisted store and finalize_and_sort, lines 40-63 and 290-347.     *)
(***************************************************************************)

\* A function without one key of its domain (del d[k]).
Without(f, k) == [j \in DOMAIN f \ {k} |-> f[j]]

\* A function with one key set (d[k] = v).
With(f, k, v) == [j \in DOMAIN f \cup {k} |-> IF j = k THEN v ELSE f[j]]

\* load_known_faces(), lines 40-54: a missing file gives two empty lists.
load_known_faces(file) ==
    IF file.saved THEN [encodings |-> file.encodings, names |-> file.names]
    ELSE [encodings |-> << >>, names |-> << >>]

\* save_known_faces(known_encodings, known_names), lines 57-63.
save_known_faces(known_encodings, known_names) ==
    [saved |-> TRUE, encodings |-> known_encodings, names |-> known_names]

\* Lines 299-301: what the loop of line 304 starts from; learned records
\* the temp_ids whose encodings the loop appends, in order.
learn_start(known, cache, req) ==
    [known_encodings |-> known.encodings, known_names |-> known.names,
     cache |-> cache, all_names_in_photo |-> req.identified_people,
     learned |-> << >>]

\* A faulty learn_encoding that leaves the cache entry in place; C9 must fail
\* with it.
learn_encoding_kept(ls, label) ==
    [ls EXCEPT !.known_encodings = Append(@, ls.cache[label.temp_id]),
               !.known_names = Append(@, label.name),
               !.learned = Append(@, label.temp_id)]

\* Lines 310-317: the label's encoding is still cached, it is learned.
learn_encoding(ls, label) ==
    [ls EXCEPT !.known_encodings = Append(@, ls.cache[label.temp_id]),
               !.known_names = Append(@, label.name),
               !.cache = Without(@, label.temp_id),
               !.learned = Append(@, label.temp_id)]

\* A faulty learn_label that files the photo under a label's name only when
\* the label's encoding is learned; C1 must fail with it.
learn_label_cached(ls, label) ==
    IF /\ label.name # ""
       /\ label.temp_id \in DOMAIN ls.cache
       /\ ls.cache[label.temp_id] # NoEncoding
    THEN learn_encoding([ls EXCEPT !.all_names_in_photo = @ \cup {label.name}], label)
    ELSE ls

\* A faulty learn_label that appends the name of every non-blank label,
\* cached encoding or not; C3 must fail with it.
learn_label_named(ls, label) ==
    IF label.name = "" THEN ls
    ELSE LET named == [ls EXCEPT !.all_names_in_photo = @ \cup {label.name}]
         IN  IF /\ label.temp_id \in DOMAIN ls.cache
                /\ ls.cache[label.temp_id] # NoEncoding
             THEN learn_encoding(named, label)
             ELSE [named EXCEPT !.known_names = Append(@, label.name)]

\* One iteration of the loop of lines 304-317.
learn_label(ls, label) ==
    IF label.name = "" THEN ls
    ELSE LET named == [ls EXCEPT !.all_names_in_photo = @ \cup {label.name}]
         IN  IF /\ label.temp_id \in DOMAIN ls.cache
                /\ ls.cache[label.temp_id] # NoEncoding
             THEN learn_encoding(named, label)
             ELSE named

RECURSIVE learn_labels(_, _)
learn_labels(ls, new_labels) ==
    IF new_labels = << >> THEN ls
    ELSE learn_labels(learn_label(ls, Head(new_labels)), Tail(new_labels))

\* The temp_ids of a request's labels, whose crops line 339-345 remove.
label_ids(new_labels) == {new_labels[k].temp_id : k \in 1..Len(new_labels)}

\* Lines 326-329: the photo copied into the folder of every name.
copy_photo(sorted, names, file) == sorted \cup {<<nm, file>> : nm \in names}

(***************************************************************************)
(* The server.  Line 351 starts one process; the handlers are coroutines   *)
(* without an await, so within a process a request is handled from its     *)
(* first line to its last before the next one starts.  Server processes    *)
(* started on the same directory share the files and nothing else: each    *)
(* has its own temp_face_encoding_cache.                                   *)
(***************************************************************************)
files == <<temp_uploads, temp_crops, sorted_photos, person_folders>>
calls == <<args, result, memo>>
server == <<known_faces, temp_face_encoding_cache, temp_uploads, temp_crops,
            sorted_photos, person_folders, uuid_next, inflight, request, response,
            consumed, filed, memo>>

Procs == {1, 2}
MainProc == 1

MaxIds == 2
MaxStore == 3
MaxLabels == 2

TempIds == 1..MaxIds
Files == {"a.jpg"}

\* Sequences over S of length at most n.
SeqsUpTo(S, n) == UNION {[1..k -> S] : k \in 0..n}

Image(boxes, embeddings) ==
    [boxes |-> boxes, embeddings |-> embeddings, width |-> MaxCoord, height |-> MaxCoord]

\* The photos uploaded: no face; one face; two faces of which the second
\* has no embedding; two detections of one face.
Photos ==
    {Image(<< >>, << >>),
     Image(<<<<0, 0, 2, 2>>>>, <<<<1, 0>>>>),
     Image(<<<<0, 0, 1, 2>>, <<1, 0, 2, 2>>>>, <<<<0, 1>>>>),
     Image(<<<<0, 0, 2, 2>>, <<-1, 0, 2, 3>>>>, <<<<0, 1>>, <<1, 1>>>>)}

\* The finalize requests sent: identified_people is a list in the request
\* and a set from line 301 on.
Labels == [temp_id : TempIds, name : {"", "bob"}]

Requests ==
    [temp_photo_path : Files, identified_people : SUBSET {"ann"},
     new_labels : SeqsUpTo(Labels, MaxLabels)]

Idle == [step |-> "idle"]

NoCall == [fn |-> "none"]

NoRequest == [op |-> "none"]

\* The store at the start: no file yet, or a well-formed one.
Stores ==
    {[saved |-> FALSE, encodings |-> << >>, names |-> << >>],
     [saved |-> TRUE, encodings |-> <<<<1, 0>>>>, names |-> <<"ann">>]}

\* The server just started: empty directories (lines 23-25), an empty cache
\* (line 29), nothing handled yet.
Started ==
    /\ memo = Memo
    /\ known_faces \in Stores
    /\ temp_face_encoding_cache = [p \in Procs |-> << >>]
    /\ temp_uploads = {}
    /\ temp_crops = {}
    /\ sorted_photos = {}
    /\ person_folders = {}
    /\ uuid_next = 1
    /\ inflight = [p \in Procs |-> Idle]
    /\ request = NoRequest
    /\ response = NoRequest
    /\ consumed = [t \in TempIds |-> 0]
    /\ filed = {}

Init ==
    /\ Started
    /\ args = NoCall
    /\ result = NoCall

\* The temp_ids line 251 draws for n faces.
fresh_ids(n) == [k \in 1..n |-> uuid_next + k - 1]

\* Lines 268-273 over a request: every unidentified face cached under its id.
RECURSIVE cache_faces(_, _, _)
cache_faces(cache, faces, ids) ==
    IF faces = << >> THEN cache
    ELSE cache_faces(With(cache, Head(ids), Head(faces).encoding), Tail(faces), Tail(ids))

\* POST /api/process-photo, lines 146-287, handled by process p.
ProcessPhoto(p, file, photo) ==
    LET known == load_known_faces(known_faces)
        lp    == scan_faces(known.encodings, known.names, photo)
        ids   == fresh_ids(Len(lp.unidentified_faces))
    IN  /\ inflight[p] = Idle
        /\ uuid_next + Len(ids) - 1 <= MaxIds
        /\ temp_uploads' = temp_uploads \cup {file}
        /\ temp_crops' = temp_crops \cup {ids[k] : k \in 1..Len(ids)}
        /\ temp_face_encoding_cache' =
              [temp_face_encoding_cache EXCEPT
                  ![p] = cache_faces(@, lp.unidentified_faces, ids)]
        /\ uuid_next' = uuid_next + Len(ids)
        /\ request' = [op |-> "process-photo", proc |-> p, file |-> file, photo |-> photo]
        /\ response' = [op |-> "process-photo", status |-> 200, temp_photo_path |-> file,
                        identified_people |-> lp.identified_people,
                        unidentified_faces |-> ids]
        /\ filed' = filed \ {file}
        /\ UNCHANGED <<known_faces, sorted_photos, person_folders, inflight, consumed>>
        /\ UNCHANGED calls

\* The same request with a file the detector cannot read, lines 154-180.
ProcessPhotoRejected(p, file) ==
    /\ inflight[p] = Idle
    /\ temp_uploads' = temp_uploads \ {file}
    /\ request' = [op |-> "process-photo", proc |-> p, file |-> file]
    /\ response' = [op |-> "process-photo", status |-> 400]
    /\ filed' = filed \ {file}
    /\ UNCHANGED <<known_faces, temp_face_encoding_cache, temp_crops, sorted_photos,
                   person_folders, uuid_next, inflight, consumed>>
    /\ UNCHANGED calls

\* consumed after the temp_ids of learned have been learned once more each.
Count(learned, t) == Cardinality({k \in 1..Len(learned) : learned[k] = t})

consume(learned) == [t \in TempIds |-> consumed[t] + Count(learned, t)]

\* A faulty SortPhoto that leaves the temporary photo in place; C8 must fail
\* with it.
SortPhotoKept(p, req, all_names_in_photo) ==
    /\ request' = [op |-> "finalize-and-sort", proc |-> p, body |-> req]
    /\ IF req.temp_photo_path \notin temp_uploads
       THEN /\ response' = [op |-> "finalize-and-sort", status |-> 404]
            /\ UNCHANGED files
            /\ UNCHANGED filed
       ELSE /\ person_folders' = person_folders \cup all_names_in_photo
            /\ sorted_photos' = copy_photo(sorted_photos, all_names_in_photo,
                                           req.temp_photo_path)
            /\ temp_uploads' = temp_uploads
            /\ temp_crops' = temp_crops \ label_ids(req.new_labels)
            /\ response' = [op |-> "finalize-and-sort", status |-> 200,
                            names |-> all_names_in_photo]
            /\ filed' = filed \cup {req.temp_photo_path}

\* Lines 322-347 for a request whose labels gave all_names_in_photo.
SortPhoto(p, req, all_names_in_photo) ==
    /\ request' = [op |-> "finalize-and-sort", proc |-> p, body |-> req]
    /\ IF req.temp_photo_path \notin temp_uploads
       THEN /\ response' = [op |-> "finalize-and-sort", status |-> 404]
            /\ UNCHANGED files
            /\ UNCHANGED filed
       ELSE /\ person_folders' = person_folders \cup all_names_in_photo
            /\ sorted_photos' = copy_photo(sorted_photos, all_names_in_photo,
                                           req.temp_photo_path)
            /\ temp_uploads' = temp_uploads \ {req.temp_photo_path}
            /\ temp_crops' = temp_crops \ label_ids(req.new_labels)
            /\ response' = [op |-> "finalize-and-sort", status |-> 200,
                            names |-> all_names_in_photo]
            /\ filed' = filed \cup {req.temp_photo_path}

\* A faulty Finalize that checks the photo before it learns the labels;
\* C10 must fail with it.
FinalizeCheckedFirst(p, req) ==
    LET ls == learn_labels(learn_start(load_known_faces(known_faces),
                                       temp_face_encoding_cache[p], req),
                           req.new_labels)
    IN  /\ inflight[p] = Idle
        /\ Len(ls.known_names) <= MaxStore
        /\ IF req.temp_photo_path \in temp_uploads
           THEN /\ known_faces' = save_known_faces(ls.known_encodings, ls.known_names)
                /\ temp_face_encoding_cache' =
                      [temp_face_encoding_cache EXCEPT ![p] = ls.cache]
                /\ consumed' = consume(ls.learned)
           ELSE UNCHANGED <<known_faces, temp_face_encoding_cache, consumed>>
        /\ SortPhoto(p, req, ls.all_names_in_photo)
        /\ UNCHANGED <<uuid_next, inflight>>
        /\ UNCHANGED calls

\* POST /api/finalize-and-sort, lines 290-347, handled by process p alone.
Finalize(p, req) ==
    LET ls == learn_labels(learn_start(load_known_faces(known_faces),
                                       temp_face_encoding_cache[p], req),
                           req.new_labels)
    IN  /\ inflight[p] = Idle
        /\ Len(ls.known_names) <= MaxStore
        /\ known_faces' = save_known_faces(ls.known_encodings, ls.known_names)
        /\ temp_face_encoding_cache' = [temp_face_encoding_cache EXCEPT ![p] = ls.cache]
        /\ consumed' = consume(ls.learned)
        /\ SortPhoto(p, req, ls.all_names_in_photo)
        /\ UNCHANGED <<uuid_next, inflight>>
        /\ UNCHANGED calls

Next ==
    \/ \E file \in Files, photo \in Photos : ProcessPhoto(MainProc, file, photo)
    \/ \E file \in Files : ProcessPhotoRejected(MainProc, file)
    \/ \E req \in Requests : Finalize(MainProc, req)

Spec == Init /\ [][Next]_vars

(***************************************************************************)
(* Several server processes on one directory.  What one process does       *)
(* between two accesses to the shared files is one step: finalize_and_sort *)
(* loads the store (line 299), then learns the labels from its own cache   *)
(* and saves the store (lines 301-320), then sorts the photo (lines        *)
(* 322-347).  A process handles one request at a time.                     *)
(***************************************************************************)

\* Line 299: the request arrives at process p, which loads the store.
FinalizeLoad(p, req) ==
    /\ inflight[p] = Idle
    /\ inflight' = [inflight EXCEPT ![p] =
                       [step |-> "loaded", body |-> req,
                        known |-> load_known_faces(known_faces), missed |-> << >>]]
    /\ request' = [op |-> "finalize-and-sort", proc |-> p, body |-> req]
    /\ UNCHANGED <<known_faces, temp_face_encoding_cache, uuid_next, response,
                   consumed, filed>>
    /\ UNCHANGED files
    /\ UNCHANGED calls

\* The pairs process p saves, as the processes that loaded before see them.
saved_by(p, learned) == [k \in 1..Len(learned) |-> [proc |-> p, temp_id |-> learned[k]]]

\* A faulty FinalizeLearn that learns into the store as it is when p saves,
\* as if load and save were one step; C7 must fail with it.
FinalizeLearnReloaded(p) ==
    LET ls == learn_labels(learn_start(load_known_faces(known_faces),
                                       temp_face_encoding_cache[p], inflight[p].body),
                           inflight[p].body.new_labels)
    IN  /\ inflight[p].step = "loaded"
        /\ Len(ls.known_names) <= MaxStore
        /\ known_faces' = save_known_faces(ls.known_encodings, ls.known_names)
        /\ temp_face_encoding_cache' = [temp_face_encoding_cache EXCEPT ![p] = ls.cache]
        /\ consumed' = consume(ls.learned)
        /\ inflight' =
              [q \in Procs |->
                  IF q = p
                  THEN [step |-> "saved", body |-> inflight[p].body,
                        known |-> inflight[p].known, missed |-> inflight[p].missed,
                        all_names_in_photo |-> ls.all_names_in_photo,
                        learned |-> ls.learned]
                  ELSE IF inflight[q].step = "loaded"
                  THEN [inflight[q] EXCEPT !.missed = @ \o saved_by(p, ls.learned)]
                  ELSE inflight[q]]
        /\ UNCHANGED <<uuid_next, request, response, filed>>
        /\ UNCHANGED files
        /\ UNCHANGED calls

\* Lines 301-320: p learns the labels into the lists it loaded and saves
\* them; missed records, for every process that has loaded and not saved
\* yet, the pairs saved meanwhile.
FinalizeLearn(p) ==
    LET ls == learn_labels(learn_start(inflight[p].known,
                                       temp_face_encoding_cache[p], inflight[p].body),
                           inflight[p].body.new_labels)
    IN  /\ inflight[p].step = "loaded"
        /\ Len(ls.known_names) <= MaxStore
        /\ known_faces' = save_known_faces(ls.known_encodings, ls.known_names)
        /\ temp_face_encoding_cache' = [temp_face_encoding_cache EXCEPT ![p] = ls.cache]
        /\ consumed' = consume(ls.learned)
        /\ inflight' =
              [q \in Procs |->
                  IF q = p
                  THEN [step |-> "saved", body |-> inflight[p].body,
                        known |-> inflight[p].known, missed |-> inflight[p].missed,
                        all_names_in_photo |-> ls.all_names_in_photo,
                        learned |-> ls.learned]
                  ELSE IF inflight[q].step = "loaded"
                  THEN [inflight[q] EXCEPT !.missed = @ \o saved_by(p, ls.learned)]
                  ELSE inflight[q]]
        /\ UNCHANGED <<uuid_next, request, response, filed>>
        /\ UNCHANGED files
        /\ UNCHANGED calls

\* Lines 322-347: p sorts the photo and answers.
FinalizeSort(p) ==
    /\ inflight[p].step = "saved"
    /\ SortPhoto(p, inflight[p].body, inflight[p].all_names_in_photo)
    /\ inflight' = [inflight EXCEPT ![p] = Idle]
    /\ UNCHANGED <<known_faces, temp_face_encoding_cache, uuid_next, consumed>>
    /\ UNCHANGED calls

\* The requests of the processes: one face per photo, one label per request.
ConcPhotos == {Image(<<<<0, 0, 2, 2>>>>, <<<<0, 1>>>>)}

ConcRequests ==
    [temp_photo_path : Files, identified_people : {{}},
     new_labels : SeqsUpTo([temp_id : TempIds, name : {"bob"}], 1)]

ConcNext ==
    \/ \E p \in Procs, file \in Files, photo \in ConcPhotos : ProcessPhoto(p, file, photo)
    \/ \E p \in Procs, req \in ConcRequests : FinalizeLoad(p, req)
    \/ \E p \in Procs : FinalizeLearn(p)
    \/ \E p \in Procs : FinalizeSort(p)

ConcInit == Init /\ ~known_faces.saved

ConcSpec == ConcInit /\ [][ConcNext]_vars

(***************************************************************************)
(* The helper functions on their own: the arguments of one call are drawn  *)
(* at the start, the step is the call.                                     *)
(***************************************************************************)
MaxComp == 1
MaxKnown == 2
MaxFaces == 3

\* Vectors of three components in -MaxComp..MaxComp.
Vectors == {<<c1, c2, c3>> : c1 \in -MaxComp..MaxComp, c2 \in -MaxComp..MaxComp,
                             c3 \in -MaxComp..MaxComp}

CosInit ==
    /\ Started
    /\ ~known_faces.saved
    /\ args \in [fn : {"cosine_distance"}, a : Vectors, b : Vectors]
    /\ result = NoCall

\* One call of cosine_distance and the call with the arguments swapped.
CallCosineDistance ==
    /\ args.fn = "cosine_distance"
    /\ result = NoCall
    /\ result' = [fn |-> "cosine_distance",
                  value |-> cosine_distance(args.a, args.b),
                  swapped |-> cosine_distance(args.b, args.a)]
    /\ UNCHANGED args
    /\ UNCHANGED server

CosSpec == CosInit /\ [][CallCosineDistance]_vars

\* Boxes with all four coordinates in 0..MaxCoord, degenerate ones included.
Boxes == {<<x1, y1, x2, y2>> : x1 \in 0..MaxCoord, y1 \in 0..MaxCoord,
                               x2 \in 0..MaxCoord, y2 \in 0..MaxCoord}

IouInit ==
    /\ Started
    /\ ~known_faces.saved
    /\ args \in [fn : {"box_iou"}, boxA : Boxes, boxB : Boxes]
    /\ result = NoCall

CallBoxIou ==
    /\ args.fn = "box_iou"
    /\ result = NoCall
    /\ result' = [fn |-> "box_iou", value |-> box_iou(args.boxA, args.boxB)]
    /\ UNCHANGED args
    /\ UNCHANGED server

IouSpec == IouInit /\ [][CallBoxIou]_vars

\* Known faces: up to MaxKnown encodings, entry k named after its place.
PersonNames == <<"ann", "bob", "cat", "dan">>

KnownLists == SeqsUpTo(Encodings, MaxKnown)

MatchInit ==
    /\ Started
    /\ ~known_faces.saved
    /\ \E known_encodings \in KnownLists :
          \/ args \in [fn : {"find_best_match"}, known_encodings : {known_encodings},
                       known_names : {SubSeq(PersonNames, 1, Len(known_encodings))},
                       encoding : Encodings]
          \/ args \in [fn : {"match_name"}, known_encodings : {known_encodings},
                       known_names : {SubSeq(PersonNames, 1, Len(known_encodings))},
                       encoding : Encodings \cup {NoEncoding}]
    /\ result = NoCall

CallFindBestMatch ==
    /\ args.fn = "find_best_match"
    /\ result = NoCall
    /\ result' = [fn |-> "find_best_match",
                  value |-> find_best_match(args.known_encodings, args.encoding)]
    /\ UNCHANGED args
    /\ UNCHANGED server

CallMatchName ==
    /\ args.fn = "match_name"
    /\ result = NoCall
    /\ result' = [fn |-> "match_name",
                  value |-> match_name(args.known_encodings, args.known_names,
                                       args.encoding)]
    /\ UNCHANGED args
    /\ UNCHANGED server

MatchNext == CallFindBestMatch \/ CallMatchName

MatchSpec == MatchInit /\ [][MatchNext]_vars

\* Photos of up to MaxFaces detections: full and clipped boxes of one face
\* and a box of half of it, embeddings for the first detections or for all.
PhotoBoxes == {<<0, 0, 2, 2>>, <<-1, 0, 2, 3>>, <<0, 0, 1, 2>>}
PhotoEncodings == {<<1, 0>>, <<3, 1>>, <<0, 1>>}

PhotoInputs ==
    UNION {{Image(boxes, embeddings) :
               embeddings \in SeqsUpTo(PhotoEncodings, Len(boxes))} :
           boxes \in SeqsUpTo(PhotoBoxes, MaxFaces)}

PhotoInit ==
    /\ Started
    /\ args \in [fn : {"scan_faces"}, photo : PhotoInputs]
    /\ result = NoCall

\* Lines 163 and 182-287: the faces of the photo compared with the store.
CallScanFaces ==
    /\ args.fn = "scan_faces"
    /\ result = NoCall
    /\ result' = [fn |-> "scan_faces",
                  value |-> scan_faces(load_known_faces(known_faces).encodings,
                                       load_known_faces(known_faces).names, args.photo)]
    /\ UNCHANGED args
    /\ UNCHANGED server

PhotoSpec == PhotoInit /\ [][CallScanFaces]_vars

(***************************************************************************)
(* Properties of the helper functions.                                     *)
(***************************************************************************)
FTwo == FInt(2)

IsZeroVector(a) == \A k \in 1..Len(a) : a[k] = 0

\* C4: for all vectors a and b of equal length, cosine_distance(a, b) equals
\* cosine_distance(b, a) and lies in [0, 2]; with a zero vector it is 1.0.
C4_SymmetricInRange ==
    result.fn = "cosine_distance" =>
        /\ result.value = result.swapped
        /\ FLe(FZero, result.value)
        /\ FLe(result.value, FTwo)
        /\ (IsZeroVector(args.a) \/ IsZeroVector(args.b)) => result.value = FOne

\* C5: for all boxes, degenerate ones and pairs of zero-area boxes included,
\* box_iou returns a value in [0, 1]; the intersection area never exceeds
\* the union area, and a union that is not positive yields 0.
C5_IouInUnitInterval ==
    result.fn = "box_iou" =>
        /\ FLe(FZero, result.value)
        /\ FLe(result.value, FOne)
        /\ 0 <= inter_area(args.boxA, args.boxB)
        /\ inter_area(args.boxA, args.boxB) <= union_area(args.boxA, args.boxB)
        /\ union_area(args.boxA, args.boxB) <= 0 => result.value = FZero
        /\ union_area(args.boxA, args.boxB) > 0 =>
              result.value = Ratio(inter_area(args.boxA, args.boxB),
                                   union_area(args.boxA, args.boxB))

\* C5 is met for a proper box and a box with x2 < x1, and for two boxes of no area.
C5_Degenerate ==
    /\ result.fn = "box_iou"
    /\ \/ /\ args.boxA[3] > args.boxA[1] /\ args.boxA[4] > args.boxA[2]
          /\ args.boxB[3] < args.boxB[1] /\ args.boxB[4] > args.boxB[2]
       \/ /\ args.boxA[3] = args.boxA[1]
          /\ args.boxB[4] = args.boxB[2]
    /\ result.value = FZero

\* r is the index of the first known encoding at the least distance from
\* encoding if that distance is <= 0.6, and None (0) otherwise or when
\* nothing is known.
IsBestMatch(known_encodings, encoding, r) ==
    IF known_encodings = << >> THEN r = NoIndex
    ELSE LET least == CHOOSE i \in 1..Len(known_encodings) :
                        /\ \A j \in 1..Len(known_encodings) :
                              FLe(distance(known_encodings[i], encoding),
                                  distance(known_encodings[j], encoding))
                        /\ \A j \in 1..(i - 1) :
                              FLt(distance(known_encodings[i], encoding),
                                  distance(known_encodings[j], encoding))
         IN  IF FLe(distance(known_encodings[least], encoding), Thresholds.match)
             THEN r = least
             ELSE r = NoIndex

\* C2: find_best_match returns None for an empty list, else the lowest index
\* of a known encoding at the minimum distance if and only if that minimum
\* is <= 0.6, and None when it exceeds 0.6; process_photo names a face with
\* known_names at exactly that index.
C2_BestMatch ==
    /\ result.fn = "find_best_match" =>
          IsBestMatch(args.known_encodings, args.encoding, result.value)
    /\ (result.fn = "match_name" /\ args.encoding # NoEncoding) =>
          \E r \in 0..Len(args.known_encodings) :
             /\ IsBestMatch(args.known_encodings, args.encoding, r)
             /\ result.value = IF r = NoIndex THEN NoName ELSE args.known_names[r]
    /\ (result.fn = "match_name" /\ args.encoding = NoEncoding) =>
          result.value = NoName

\* C2 is met with a tie: two known encodings at the same distance, within 0.6.
C2_Tie ==
    /\ result.fn = "find_best_match"
    /\ Len(args.known_encodings) = 2
    /\ args.known_encodings[1] # args.known_encodings[2]
    /\ distance(args.known_encodings[1], args.encoding)
          = distance(args.known_encodings[2], args.encoding)
    /\ result.value = 1

\* Detections i and j of the photo are duplicates of each other: their
\* embeddings are at distance < 0.08 or their clamped boxes have IoU > 0.6.
Duplicates(photo, i, j) ==
    \/ /\ Len(photo.embeddings) >= i
       /\ Len(photo.embeddings) >= j
       /\ FLt(distance(photo.embeddings[i], photo.embeddings[j]), Thresholds.distance)
    \/ FLt(Thresholds.iou,
           box_iou(clamp_box(photo.boxes[i], photo.width, photo.height),
                   clamp_box(photo.boxes[j], photo.width, photo.height)))

\* C6: within one process-photo request a detection is skipped whenever it
\* duplicates a face processed before it and not skipped, whether that face
\* was matched to a known person or left unidentified.
C6_DuplicatesSkipped ==
    result.fn = "scan_faces" =>
        \A j \in 1..Len(result.value.outcome) : \A i \in 1..(j - 1) :
            (result.value.outcome[i] # "skipped" /\ Duplicates(args.photo, i, j))
                => result.value.outcome[j] = "skipped"

(***************************************************************************)
(* Properties of the server.                                               *)
(***************************************************************************)

\* A step is one request: the request and the process that handled it.
IsProcessStep == request'.op = "process-photo"

IsFinalizeStep == request'.op = "finalize-and-sort"

\* The names a finalize request files the photo under: identified_people
\* and the non-blank names of new_labels.
NamesOf(req) ==
    req.identified_people \cup
        {req.new_labels[k].name : k \in {j \in 1..Len(req.new_labels) :
                                            req.new_labels[j].name # ""}}

\* Label k is valid: its name is not blank and, when the loop reaches it, an
\* encoding is cached under its temp_id.
ValidLabel(new_labels, cache, k) ==
    /\ new_labels[k].name # ""
    /\ new_labels[k].temp_id \in DOMAIN cache
    /\ cache[new_labels[k].temp_id] # NoEncoding
    /\ \A j \in 1..(k - 1) :
          ~(new_labels[j].name # "" /\ new_labels[j].temp_id = new_labels[k].temp_id)

RECURSIVE ValidLabelsFrom(_, _, _)
ValidLabelsFrom(new_labels, cache, k) ==
    IF k > Len(new_labels) THEN << >>
    ELSE (IF ValidLabel(new_labels, cache, k) THEN <<k>> ELSE << >>)
            \o ValidLabelsFrom(new_labels, cache, k + 1)

ValidLabels(new_labels, cache) == ValidLabelsFrom(new_labels, cache, 1)

\* The step saved the loaded store with one (encoding, name) pair appended
\* per valid label of req, in the order of the labels.
AppendsValidPairs(p, req) ==
    LET known == load_known_faces(known_faces)
        cache == temp_face_encoding_cache[p]
        valid == ValidLabels(req.new_labels, cache)
    IN  /\ known_faces'.saved
        /\ known_faces'.encodings =
              known.encodings \o [i \in 1..Len(valid) |->
                                     cache[req.new_labels[valid[i]].temp_id]]
        /\ known_faces'.names =
              known.names \o [i \in 1..Len(valid) |-> req.new_labels[valid[i]].name]

\* The step deleted the cache entries of the valid labels of req, and changed
\* nothing else in the cache.
DeletesValidEntries(p, req) ==
    LET cache == temp_face_encoding_cache[p]
        valid == ValidLabels(req.new_labels, cache)
        ids   == {req.new_labels[valid[i]].temp_id : i \in 1..Len(valid)}
    IN  /\ DOMAIN temp_face_encoding_cache'[p] = (DOMAIN cache) \ ids
        /\ \A t \in DOMAIN temp_face_encoding_cache'[p] :
              temp_face_encoding_cache'[p][t] = cache[t]

C1_Step ==
    (IsFinalizeStep /\ response'.status = 200) =>
        LET req == request'.body
        IN  /\ req.temp_photo_path \in temp_uploads
            /\ \A nm \in NamesOf(req) :
                  /\ nm \in person_folders'
                  /\ <<nm, req.temp_photo_path>> \in sorted_photos'
            /\ sorted_photos' \ sorted_photos
                  \subseteq {<<nm, req.temp_photo_path>> : nm \in NamesOf(req)}
            /\ person_folders' \ person_folders \subseteq NamesOf(req)

\* C1: when finalize-and-sort returns successfully, its temp_photo_path
\* existed and a copy of the photo is in the folder of every name of
\* identified_people and of every new label with a non-blank name, cached
\* or not; the request puts the photo in no other folder.
C1_SortedUnderEveryName == [][C1_Step]_vars

\* C1 is met by a successful request with an identified name and a label
\* whose temp_id was never issued.
C1_Sorted ==
    /\ response.op = "finalize-and-sort"
    /\ response.status = 200
    /\ response.names = {"ann", "bob"}
    /\ "ann" \in request.body.identified_people
    /\ \E k \in 1..Len(request.body.new_labels) :
          /\ request.body.new_labels[k].name = "bob"
          /\ request.body.new_labels[k].temp_id >= uuid_next
    /\ \A k \in 1..Len(request.body.new_labels) :
          request.body.new_labels[k].temp_id >= uuid_next
    /\ <<"ann", request.body.temp_photo_path>> \in sorted_photos
    /\ <<"bob", request.body.temp_photo_path>> \in sorted_photos

C3_Parallel ==
    /\ Len(known_faces.encodings) = Len(known_faces.names)
    /\ known_faces.saved \/ known_faces.names = << >>

C3_Step ==
    /\ IsFinalizeStep => AppendsValidPairs(request'.proc, request'.body)
    /\ IsProcessStep => known_faces' = known_faces

\* C3: the store is a pair of parallel lists: the encodings and the names
\* have equal length, every finalize request appends exactly one
\* (encoding, name) pair per new label with a non-blank name and a cached
\* encoding that is not None, and process-photo never changes the store.
C3_ParallelLists == []C3_Parallel /\ [][C3_Step]_vars

\* C3 is met by a request that appended the pairs of two labels.
C3_TwoLearned ==
    /\ response.op = "finalize-and-sort"
    /\ Len(request.body.new_labels) = 2
    /\ request.body.new_labels[1].temp_id # request.body.new_labels[2].temp_id
    /\ \A k \in 1..2 : /\ request.body.new_labels[k].name # ""
                       /\ consumed[request.body.new_labels[k].temp_id] = 1
    /\ Len(known_faces.names) >= 2
    /\ known_faces.names[Len(known_faces.names)] = request.body.new_labels[2].name

C8_Step ==
    IsFinalizeStep =>
        LET req == request'.body
        IN  /\ response'.status = 200 =>
                  /\ req.temp_photo_path \notin temp_uploads'
                  /\ label_ids(req.new_labels) \cap temp_crops' = {}
                  /\ req.temp_photo_path \in filed'
            /\ req.temp_photo_path \in filed =>
                  /\ response'.status = 404
                  /\ sorted_photos' = sorted_photos
                  /\ person_folders' = person_folders

C9_Step ==
    /\ (IsProcessStep /\ response'.status = 200) =>
          LET ids   == response'.unidentified_faces
              cache == temp_face_encoding_cache[request'.proc]
          IN  /\ \A k \in 1..Len(ids) : ids[k] >= uuid_next /\ ids[k] \notin DOMAIN cache
              /\ \A k \in 1..Len(ids) : \A j \in 1..(k - 1) : ids[j] # ids[k]
              /\ \A k \in 1..Len(ids) : consumed[ids[k]] = 0
              /\ DOMAIN temp_face_encoding_cache'[request'.proc]
                    = (DOMAIN cache) \cup {ids[k] : k \in 1..Len(ids)}
              /\ \A t \in DOMAIN cache : temp_face_encoding_cache'[request'.proc][t] = cache[t]
              /\ uuid_next' = uuid_next + Len(ids)
    /\ IsFinalizeStep =>
          LET labels == request'.body.new_labels
              cache  == temp_face_encoding_cache[request'.proc]
          IN  /\ \A k \in 1..Len(labels) :
                    (/\ labels[k].name # ""
                     /\ labels[k].temp_id \in DOMAIN cache
                     /\ cache[labels[k].temp_id] # NoEncoding)
                       => /\ labels[k].temp_id
                                \notin DOMAIN temp_face_encoding_cache'[request'.proc]
                          /\ consumed'[labels[k].temp_id] = consumed[labels[k].temp_id] + 1
              /\ (\A k \in 1..Len(labels) :
                     labels[k].name = "" \/ labels[k].temp_id \notin DOMAIN cache)
                       => /\ load_known_faces(known_faces') = load_known_faces(known_faces)
                          /\ temp_face_encoding_cache' = temp_face_encoding_cache
                          /\ consumed' = consumed

\* C9: the encoding cached under a temp_id is appended to the store at most
\* once; process-photo caches one entry under a fresh temp_id for every
\* unidentified face it returns, a finalize request deletes the entry of a
\* label it learns, and labels with a blank name or an unknown temp_id
\* change neither the store nor the cache.
C9_ConsumedAtMostOnce == [](\A t \in TempIds : consumed[t] <= 1) /\ [][C9_Step]_vars

\* C9 is met by a request that names one cached temp_id twice.
C9_LabelledTwice ==
    /\ response.op = "finalize-and-sort"
    /\ Len(request.body.new_labels) = 2
    /\ request.body.new_labels[1].temp_id = request.body.new_labels[2].temp_id
    /\ \A k \in 1..2 : request.body.new_labels[k].name # ""
    /\ consumed[request.body.new_labels[1].temp_id] = 1
    /\ request.body.new_labels[1].temp_id
          \notin DOMAIN temp_face_encoding_cache[request.proc]

C10_Step ==
    (IsFinalizeStep /\ request'.body.temp_photo_path \notin temp_uploads) =>
        /\ response'.status = 404
        /\ AppendsValidPairs(request'.proc, request'.body)
        /\ DeletesValidEntries(request'.proc, request'.body)
        /\ temp_crops' = temp_crops
        /\ UNCHANGED <<temp_uploads, sorted_photos, person_folders>>

\* C10: a finalize request whose temp_photo_path does not exist answers 404
\* after the pairs of its valid labels have been appended to the saved store
\* and their cache entries deleted; its crop files stay in place.
C10_LearnsBeforeCheck == [][C10_Step]_vars

\* C10 is met by a 404 answer to a request whose label has been learned
\* and whose crop is still there.
C10_LearnedThenMissing ==
    /\ response.op = "finalize-and-sort"
    /\ response.status = 404
    /\ filed = {}
    /\ \E k \in 1..Len(request.body.new_labels) :
          /\ request.body.new_labels[k].name # ""
          /\ consumed[request.body.new_labels[k].temp_id] = 1
          /\ request.body.new_labels[k].temp_id \in temp_crops
          /\ request.body.new_labels[k].temp_id
                \notin DOMAIN temp_face_encoding_cache[request.proc]
          /\ known_faces.names[Len(known_faces.names)] = request.body.new_labels[k].name

C7_Step ==
    \A q \in Procs :
        (/\ inflight[q].step = "loaded"
         /\ inflight'[q].step = "saved"
         /\ inflight[q].missed # << >>
         /\ inflight'[q].learned # << >>) =>
            /\ Len(known_faces'.names)
                  = Len(inflight[q].known.names) + Len(inflight'[q].learned)
            /\ Len(known_faces'.names)
                  < Len(inflight[q].known.names) + Len(inflight[q].missed)
                       + Len(inflight'[q].learned)
            /\ SubSeq(known_faces'.names, 1, Len(inflight[q].known.names))
                  = inflight[q].known.names
            /\ Len(known_faces'.encodings) = Len(known_faces'.names)
            /\ \A k \in 1..Len(inflight[q].missed) :
                  /\ inflight[q].missed[k].temp_id
                        \notin DOMAIN temp_face_encoding_cache'[inflight[q].missed[k].proc]
                  /\ consumed'[inflight[q].missed[k].temp_id] = 1
            /\ \A k \in 1..Len(inflight'[q].learned) :
                  /\ inflight'[q].learned[k] \notin DOMAIN temp_face_encoding_cache'[q]
                  /\ consumed'[inflight'[q].learned[k]] = 1

====
